---- MODULE Spec2Model ----
(***************************************************************************)
(* A model of flexdb (src/flexdb.go): the Database (canonical map,         *)
(* secondary indexes, read cache, hook table, persisted file) and the      *)
(* Transaction overlay with its Commit / Rollback / Get / Set / Delete /   *)
(* GetAll protocol, and Query.Execute.                                     *)
(*                                                                         *)
(* Go maps are functions whose DOMAIN is the set of keys present; a nil    *)
(* Entity (the tombstone of Delete) is the record Nil.  Every public       *)
(* method is one action; the store lock (db.mu) makes Commit, AddIndex and *)
(* the store part of Get atomic.  A run-time panic ends the process: the   *)
(* flag panicked is set and no further call is made.                       *)
(***************************************************************************)
EXTENDS FiniteSets, Integers, Sequences, TLC

VARIABLES
    data,       \* Database.data:    entityType -> id -> Entity
    indexes,    \* Database.indexes: entityType -> field -> value -> <<id, ...>>
    cache,      \* Database.cache:   cache key -> Entity (unexpired items)
    hooks,      \* Database.hooks:   operation -> <<Hook, ...>>
    migrations, \* Database.migrations: <<Migration, ...>> in registration order
    mu,         \* Database.mu: who holds and who waits for the store lock
    calls,      \* the call each caller is in, where it stands and its locals
    file,       \* the file at Database.path, as written by save()
    txs,        \* the Transaction objects the callers hold
    ret,        \* what the last call returned
    panicked    \* a call panicked: the process is gone

vars == <<data, indexes, cache, hooks, migrations, mu, calls, file, txs, ret, panicked>>

----------------------------------------------------------------------------
(* Inputs of the callers *)

EntityTypes == {"test"}
Ids == {"1", "2"}
Txs == {"t1", "t2"}
\* the field the callers index and query
IndexFields == {"Name"}
\* the (Name, Value) pairs of the entities the callers set
InputFields == {<<"a", 1>>, <<"b", 2>>}
\* with two callers at work, the first writes the "a" entities and the second
\* the "b" entity of id "1"
FieldsOf(t) == IF t = "t1" THEN {<<"a", 1>>} ELSE {<<"b", 2>>}
IdsOf(t) == IF t = "t1" THEN Ids ELSE {"1"}

\* the most ids an index may hold over its buckets after a Commit: the callers
\* stop committing beyond it
MaxIndexed == 3
\* the longest slice handed to BatchSet / BatchDelete
MaxBatch == 2

----------------------------------------------------------------------------
(* Go maps *)

EmptyMap == [k \in {} |-> k]

Put(m, k, v) == [x \in (DOMAIN m) \cup {k} |-> IF x = k THEN v ELSE m[x]]

Remove(m, k) == [x \in (DOMAIN m) \ {k} |-> m[x]]

\* m[k] of a map of maps: the nil map when k is absent
Sub(m, k) == IF k \in DOMAIN m THEN m[k] ELSE EmptyMap

\* index[value] of a map of slices: the nil slice when value is absent
Bucket(index, value) == IF value \in DOMAIN index THEN index[value] ELSE <<>>

\* the slices over S of at most n items
Slices(S, n) == UNION {[1..k -> S] : k \in 0..n}

\* the orders in which `range` may visit a set of keys
Orders(S) == {s \in [1..Cardinality(S) -> S] : \A i, j \in 1..Cardinality(S) : s[i] = s[j] => i = j}

----------------------------------------------------------------------------
(* Entities *)

Nil == [kind |-> "nil"]

TestEntity(id, name, value) ==
    [kind |-> "TestEntity", ID |-> id, Name |-> name, Value |-> value]

InputEntities == {TestEntity(i, p[1], p[2]) : i \in Ids, p \in InputFields}

EntitiesOf(t) == {TestEntity(i, p[1], p[2]) : i \in IdsOf(t), p \in FieldsOf(t)}

\* an entity type of a caller whose Rank field is of a type that implements
\* Comparable (type Rank int, Compare by the integers)
RankedEntity(id, name, rank) ==
    [kind |-> "RankedEntity", ID |-> id, Name |-> name, Rank |-> rank]

\* the ranked entities the callers set: two records for id "1", ranks that run
\* against the ids, and a tie of ranks
QueryIds == {"1", "2", "3"}
RankedEntities ==
    {RankedEntity("1", "a", 2), RankedEntity("1", "b", 1),
     RankedEntity("2", "a", 1), RankedEntity("3", "a", 1)}

\* MigrationVersion (flexdb.go 512-518)
MigrationVersion(version) ==
    [kind |-> "MigrationVersion", ID |-> "current_version", Version |-> version]

\* GenericEntity (flexdb.go 17-20): what load() makes of a record of the file
GenericEntity(id, fields) == [kind |-> "GenericEntity", ID |-> id, Fields |-> fields]

GetID(e) == e.ID

\* the exported struct fields by Go kind
StringFields(e) ==
    IF e.kind \in {"TestEntity", "RankedEntity"} THEN {"ID", "Name"}
    ELSE IF e.kind \in {"MigrationVersion", "GenericEntity"} THEN {"ID"} ELSE {}
IntFields(e) ==
    IF e.kind = "TestEntity" THEN {"Value"}
    ELSE IF e.kind = "MigrationVersion" THEN {"Version"} ELSE {}
\* the fields whose type implements Comparable
ComparableFields(e) == IF e.kind = "RankedEntity" THEN {"Rank"} ELSE {}

\* reflect.ValueOf(e).Elem().FieldByName(field).String()
FieldString(e, field) ==
    IF field \in StringFields(e) THEN e[field]
    ELSE IF field \in IntFields(e) THEN "<int Value>"
    ELSE IF field \in ComparableFields(e) THEN "<Rank Value>"
    ELSE "<invalid Value>"

\* reflect.ValueOf(e).Elem().FieldByName(field).Interface(), as a typed value
FieldInterface(e, field) ==
    IF field \in StringFields(e) THEN [type |-> "string", s |-> e[field], n |-> 0]
    ELSE IF field \in ComparableFields(e) THEN [type |-> "Rank", s |-> "", n |-> e[field]]
    ELSE [type |-> "int", s |-> "", n |-> e[field]]

StringValue(s) == [type |-> "string", s |-> s, n |-> 0]
IntValue(n) == [type |-> "int", s |-> "", n |-> n]
RankValue(n) == [type |-> "Rank", s |-> "", n |-> n]

getCacheKey(entityType, id) == entityType \o ":" \o id

----------------------------------------------------------------------------
(* Database.save: json.MarshalIndent(db.data) written to db.path *)

EncodeEntity(e) ==
    IF e.kind = "TestEntity" THEN [ID |-> e.ID, Name |-> e.Name, Value |-> e.Value]
    ELSE IF e.kind = "RankedEntity" THEN [ID |-> e.ID, Name |-> e.Name, Rank |-> e.Rank]
    ELSE IF e.kind = "MigrationVersion" THEN [id |-> e.ID, version |-> e.Version]
    ELSE IF e.kind = "GenericEntity" THEN [ID |-> e.ID, Fields |-> e.Fields]
    ELSE [null |-> TRUE]

Encode(d) == [t \in DOMAIN d |-> [i \in DOMAIN d[t] |-> EncodeEntity(d[t][i])]]

NoFile == [exists |-> FALSE, content |-> EmptyMap]

Saved(d) == [exists |-> TRUE, content |-> Encode(d)]

\* Database.load: every record of the file becomes a GenericEntity holding the
\* decoded JSON object as its Fields (flexdb.go 81-93); no file, no records
load(f) ==
    [t \in DOMAIN f.content |->
        [i \in DOMAIN f.content[t] |-> GenericEntity(i, f.content[t][i])]]

----------------------------------------------------------------------------
(* Return values *)

\* query: the Query that Execute ran;
\* called: the hooks the call ran, as <<operation, hook name>>, in the order run;
\* ups: the versions whose up-function Migrate invoked, in the order invoked
Ret(op, tx) ==
    [op |-> op, tx |-> tx, type |-> "", id |-> "", found |-> FALSE,
     entity |-> Nil, err |-> "nil", results |-> <<>>, field |-> "", value |-> Nil,
     discarded |-> 0, called |-> <<>>, ups |-> <<>>, query |-> Nil]

----------------------------------------------------------------------------
(* NewDatabase on a path with no file, and the callers' transaction slots *)

Transaction(readOnly) ==
    [readOnly |-> readOnly, changes |-> EmptyMap, committed |-> FALSE]

\* sync.RWMutex: the caller inside Lock..Unlock, the callers inside
\* RLock..RUnlock, and the callers blocked in Lock
Unlocked == [writer |-> "", readers |-> {}, waiting |-> {}]

\* a caller (named by the transaction it holds) that is in no call; a call in
\* flight has its method as op, the statement it stands before as pc, the id it
\* was handed and the overlay entries its loop has yet to visit
NoCall == [op |-> "", pc |-> "", id |-> "", todo |-> <<>>]

Idle(t) == calls[t] = NoCall

\* a Commit stands inside its loop over tx.changes with writes to db.data to come
Writing == \E t \in Txs : calls[t].op = "Commit" /\ calls[t].pc = "apply" /\ calls[t].todo # <<>>

Init ==
    /\ data = EmptyMap
    /\ indexes = EmptyMap
    /\ cache = EmptyMap
    /\ hooks = EmptyMap
    /\ migrations = <<>>
    /\ mu = Unlocked
    /\ calls = [t \in Txs |-> NoCall]
    /\ file = NoFile
    /\ txs \in [Txs -> {Transaction(FALSE), Transaction(TRUE)}]
    /\ ret = Ret("NewDatabase", "")
    /\ panicked = FALSE

\* the process starts again: NewDatabase on the same path loads the file into
\* a new Database, and the callers open their transactions on it
NewDatabase ==
    /\ data' = load(file)
    /\ indexes' = EmptyMap
    /\ cache' = EmptyMap
    /\ hooks' = EmptyMap
    /\ migrations' = <<>>
    /\ mu' = Unlocked
    /\ calls' = [t \in Txs |-> NoCall]
    /\ txs' = [t \in Txs |-> Transaction(FALSE)]
    /\ ret' = Ret("NewDatabase", "")
    /\ panicked' = FALSE
    /\ UNCHANGED file

\* Database.Transact
Transact(t, readOnly) ==
    /\ ~panicked
    /\ txs' = [txs EXCEPT ![t] = Transaction(readOnly)]
    /\ ret' = Ret("Transact", "")
    /\ UNCHANGED <<data, indexes, cache, hooks, migrations, mu, calls, file, panicked>>

----------------------------------------------------------------------------
(* Database.AddIndex *)

RECURSIVE BuildIndex(_, _, _, _)
BuildIndex(index, entities, field, order) ==
    IF order = <<>> THEN index
    ELSE LET id == Head(order)
             value == FieldString(entities[id], field)
         IN  BuildIndex(Put(index, value, Append(Bucket(index, value), id)),
                        entities, field, Tail(order))

AddIndex(entityType, field) ==
    /\ ~panicked
    /\ \E order \in Orders(DOMAIN Sub(data, entityType)) :
          indexes' = Put(indexes, entityType,
                         Put(Sub(indexes, entityType), field,
                             BuildIndex(EmptyMap, Sub(data, entityType), field, order)))
    /\ ret' = [Ret("AddIndex", "") EXCEPT !.type = entityType, !.field = field]
    /\ UNCHANGED <<data, cache, hooks, migrations, mu, calls, file, txs, panicked>>

----------------------------------------------------------------------------
(* Hooks *)

HookOps == {"pre-set", "post-set", "pre-delete", "post-delete"}

\* the hooks the callers register: a Hook is the function of the entity it is
\* handed; "ok" accepts every entity, "no2" fails on the entity of id "2" (and,
\* like "ok", accepts a nil entity without looking into it)
Hooks == {[name |-> "ok", rejects |-> {}], [name |-> "no2", rejects |-> {"2"}]}

HookError(hook) == "rejected by " \o hook.name

\* hook(tx, entityType, entity)
HookResult(hook, entity) ==
    IF entity # Nil /\ entity.ID \in hook.rejects THEN HookError(hook) ELSE "nil"

\* tx.db.hooks[operation]: the nil slice when nothing is registered
HooksOf(operation) == IF operation \in DOMAIN hooks THEN hooks[operation] ELSE <<>>

\* the most hooks the callers register in all
MaxHooks == 2

RECURSIVE SumHooks(_)
SumHooks(ops) ==
    IF ops = {} THEN 0
    ELSE LET o == CHOOSE x \in ops : TRUE IN Len(hooks[o]) + SumHooks(ops \ {o})

\* Database.RegisterHook
RegisterHook(operation, hook) ==
    /\ ~panicked
    /\ SumHooks(DOMAIN hooks) < MaxHooks
    /\ hooks' = Put(hooks, operation, Append(HooksOf(operation), hook))
    /\ ret' = Ret("RegisterHook", "")
    /\ UNCHANGED <<data, indexes, cache, migrations, mu, calls, file, txs, panicked>>

\* the loop `for _, hook := range tx.db.hooks[operation]` from the k-th hook on,
\* on st = [tx, cache, err, called]: it returns at the first hook that fails
RECURSIVE RunHooksFrom(_, _, _, _)
RunHooksFrom(st, operation, entity, k) ==
    IF k > Len(HooksOf(operation)) THEN st
    ELSE LET hook == HooksOf(operation)[k]
             s1 == [st EXCEPT !.called = Append(@, <<operation, hook.name>>),
                              !.err = HookResult(hook, entity)]
         IN  IF s1.err # "nil" THEN s1 ELSE RunHooksFrom(s1, operation, entity, k + 1)

RunHooks(st, operation, entity) == RunHooksFrom(st, operation, entity, 1)

----------------------------------------------------------------------------
(* Transaction.Commit *)

\* the orders in which the nested `range tx.changes` loops may visit the overlay
Entries(changes) == UNION {{<<t, i>> : i \in DOMAIN changes[t]} : t \in DOMAIN changes}

IterationOrders(changes) ==
    {s \in Orders(Entries(changes)) :
        \A i, j, k \in 1..Len(s) : (i < j /\ j < k /\ s[i][1] = s[k][1]) => s[j][1] = s[i][1]}

\* the index loop of Commit for one entity (flexdb.go 209-212)
RECURSIVE UpdateIndexes(_, _, _, _)
UpdateIndexes(typeIndexes, entity, id, fields) ==
    IF fields = {} THEN typeIndexes
    ELSE LET field == CHOOSE f \in fields : TRUE
             value == FieldString(entity, field)
             index == typeIndexes[field]
         IN  UpdateIndexes(Put(typeIndexes, field, Put(index, value, Append(Bucket(index, value), id))),
                           entity, id, fields \ {field})

\* ApplyEntry with the bug of leaving the cache item of a set record as it was
ApplyEntryStaleCache(db, entityType, id, entity) ==
    LET entities == Sub(db.data, entityType)
        d1 == IF entity = Nil
              THEN Put(db.data, entityType, Remove(entities, id))
              ELSE Put(db.data, entityType, Put(entities, id, entity))
        c1 == IF entity = Nil THEN Remove(db.cache, getCacheKey(entityType, id)) ELSE db.cache
        typeIndexes == Sub(db.indexes, entityType)
    IN  IF DOMAIN typeIndexes = {}
        THEN [db EXCEPT !.data = d1, !.cache = c1]
        ELSE IF entity = Nil
        THEN [db EXCEPT !.data = d1, !.cache = c1, !.panic = TRUE]
        ELSE [db EXCEPT !.data = d1, !.cache = c1,
                        !.indexes = Put(db.indexes, entityType,
                                        UpdateIndexes(typeIndexes, entity, id, DOMAIN typeIndexes))]

\* one iteration of the inner loop of Commit (flexdb.go 200-213) on
\* db = [data, cache, indexes, panic]
ApplyEntry(db, entityType, id, entity) ==
    LET entities == Sub(db.data, entityType)
        key == getCacheKey(entityType, id)
        d1 == IF entity = Nil
              THEN Put(db.data, entityType, Remove(entities, id))
              ELSE Put(db.data, entityType, Put(entities, id, entity))
        c1 == IF entity = Nil THEN Remove(db.cache, key) ELSE Put(db.cache, key, entity)
        typeIndexes == Sub(db.indexes, entityType)
    IN  IF DOMAIN typeIndexes = {}
        THEN [db EXCEPT !.data = d1, !.cache = c1]
        ELSE IF entity = Nil
        \* reflect.ValueOf(nil).Elem() panics
        THEN [db EXCEPT !.data = d1, !.cache = c1, !.panic = TRUE]
        ELSE [db EXCEPT !.data = d1, !.cache = c1,
                        !.indexes = Put(db.indexes, entityType,
                                        UpdateIndexes(typeIndexes, entity, id, DOMAIN typeIndexes))]

RECURSIVE ApplyChanges(_, _, _)
ApplyChanges(db, changes, order) ==
    IF order = <<>> \/ db.panic THEN db
    ELSE ApplyChanges(ApplyEntry(db, order[1][1], order[1][2], changes[order[1][1]][order[1][2]]),
                      changes, Tail(order))

\* the number of ids an index holds over all its buckets
RECURSIVE SumLen(_, _)
SumLen(index, values) ==
    IF values = {} THEN 0
    ELSE LET v == CHOOSE x \in values : TRUE
         IN  Len(index[v]) + SumLen(index, values \ {v})

IndexesWithin(idx, n) ==
    \A t \in DOMAIN idx : \A f \in DOMAIN idx[t] : SumLen(idx[t][f], DOMAIN idx[t][f]) <= n

\* the outcomes of Database.save: written, or an error of MkdirAll / WriteFile
\* that left the file as it was
SaveOutcomes == {"nil", "save failed"}

\* Commit on t, with save() ending in `saved`
Commit(t, saved) ==
    /\ ~panicked
    /\ IF txs[t].readOnly
       THEN /\ ret' = Ret("Commit", t)
            /\ UNCHANGED <<data, indexes, cache, hooks, migrations, mu, calls, file, txs, panicked>>
       ELSE \E order \in IterationOrders(txs[t].changes) :
              LET db == ApplyChanges([data |-> data, cache |-> cache, indexes |-> indexes,
                                      panic |-> FALSE], txs[t].changes, order)
              IN  /\ IndexesWithin(db.indexes, MaxIndexed)
                  /\ data' = db.data
                  /\ cache' = db.cache
                  /\ indexes' = db.indexes
                  /\ panicked' = db.panic
                  /\ IF db.panic
                     THEN /\ ret' = [Ret("Commit", t) EXCEPT !.err = "panic"]
                          /\ UNCHANGED <<file, txs>>
                     ELSE /\ txs' = [txs EXCEPT ![t].committed = TRUE]
                          /\ file' = IF saved = "nil" THEN Saved(db.data) ELSE file
                          /\ ret' = [Ret("Commit", t) EXCEPT !.err = saved]
                  /\ UNCHANGED <<hooks, migrations, mu, calls>>

\* Rollback with the bug of undoing the staged ids in the canonical map
RollbackUndoing(t) ==
    /\ ~panicked
    /\ txs' = [txs EXCEPT ![t].changes = EmptyMap]
    /\ data' = [et \in DOMAIN data |->
                   [i \in (DOMAIN data[et]) \ (DOMAIN Sub(txs[t].changes, et)) |-> data[et][i]]]
    /\ ret' = [Ret("Rollback", "") EXCEPT !.discarded = Cardinality(Entries(txs[t].changes))]
    /\ UNCHANGED <<indexes, cache, hooks, migrations, mu, calls, file, panicked>>

\* Transaction.Rollback
Rollback(t) ==
    /\ ~panicked
    /\ txs' = [txs EXCEPT ![t].changes = EmptyMap]
    /\ ret' = [Ret("Rollback", "") EXCEPT !.discarded = Cardinality(Entries(txs[t].changes))]
    /\ UNCHANGED <<data, indexes, cache, hooks, migrations, mu, calls, file, panicked>>

----------------------------------------------------------------------------
(* Transaction.Get *)

\* Get with the bug of caching the staged record it returns
GetInCachingOverlay(tx, c, entityType, id) ==
    LET key == getCacheKey(entityType, id) IN
    IF entityType \in DOMAIN tx.changes /\ id \in DOMAIN tx.changes[entityType]
    THEN [entity |-> tx.changes[entityType][id], found |-> TRUE,
          cache |-> IF tx.changes[entityType][id] = Nil THEN c
                    ELSE Put(c, key, tx.changes[entityType][id])]
    ELSE IF key \in DOMAIN c
    THEN [entity |-> c[key], found |-> TRUE, cache |-> c]
    ELSE IF entityType \in DOMAIN data /\ id \in DOMAIN data[entityType]
    THEN [entity |-> data[entityType][id], found |-> TRUE,
          cache |-> Put(c, key, data[entityType][id])]
    ELSE [entity |-> Nil, found |-> FALSE, cache |-> c]

\* Get on the transaction tx against the cache c: [entity, found, cache]
GetIn(tx, c, entityType, id) ==
    LET key == getCacheKey(entityType, id) IN
    IF entityType \in DOMAIN tx.changes /\ id \in DOMAIN tx.changes[entityType]
    THEN [entity |-> tx.changes[entityType][id], found |-> TRUE, cache |-> c]
    ELSE IF key \in DOMAIN c
    THEN [entity |-> c[key], found |-> TRUE, cache |-> c]
    ELSE IF entityType \in DOMAIN data /\ id \in DOMAIN data[entityType]
    THEN [entity |-> data[entityType][id], found |-> TRUE,
          cache |-> Put(c, key, data[entityType][id])]
    ELSE [entity |-> Nil, found |-> FALSE, cache |-> c]

Get(t, entityType, id) ==
    /\ ~panicked
    /\ LET got == GetIn(txs[t], cache, entityType, id)
       IN  /\ cache' = got.cache
           /\ ret' = [Ret("Get", t) EXCEPT !.type = entityType, !.id = id,
                                           !.found = got.found, !.entity = got.entity]
    /\ UNCHANGED <<data, indexes, hooks, migrations, mu, calls, file, txs, panicked>>

\* the cache's time-to-live runs out for one item
Expire(key) ==
    /\ ~panicked
    /\ key \in DOMAIN cache
    /\ cache' = Remove(cache, key)
    /\ ret' = Ret("Expire", "")
    /\ UNCHANGED <<data, indexes, hooks, migrations, mu, calls, file, txs, panicked>>

----------------------------------------------------------------------------
(* Transaction.Set, Delete, BatchSet, BatchDelete: st = [tx, cache, err, called] *)

Stage(tx, entityType, id, entity) ==
    [tx EXCEPT !.changes = Put(tx.changes, entityType, Put(Sub(tx.changes, entityType), id, entity))]

\* Set with the bug of writing the staged record through to the cache
SetInWriteThrough(st, entityType, entity) ==
    IF st.tx.readOnly THEN [st EXCEPT !.err = "read-only"]
    ELSE LET pre == RunHooks(st, "pre-set", entity) IN
         IF pre.err # "nil" THEN pre
         ELSE RunHooks([pre EXCEPT !.tx = Stage(st.tx, entityType, GetID(entity), entity),
                                   !.cache = Put(st.cache, getCacheKey(entityType, GetID(entity)), entity)],
                       "post-set", entity)

\* Set with the bug of staging the record before the pre-set hooks have run
SetInStagingFirst(st, entityType, entity) ==
    IF st.tx.readOnly THEN [st EXCEPT !.err = "read-only"]
    ELSE LET s0 == [st EXCEPT !.tx = Stage(st.tx, entityType, GetID(entity), entity)]
             pre == RunHooks(s0, "pre-set", entity)
         IN  IF pre.err # "nil" THEN pre ELSE RunHooks(pre, "post-set", entity)

\* Set with the bug of taking the record out of the overlay again when a
\* post-set hook fails
SetInUnstagingOnFailure(st, entityType, entity) ==
    IF st.tx.readOnly THEN [st EXCEPT !.err = "read-only"]
    ELSE LET pre == RunHooks(st, "pre-set", entity) IN
         IF pre.err # "nil" THEN pre
         ELSE LET post == RunHooks([pre EXCEPT !.tx = Stage(st.tx, entityType, GetID(entity), entity)],
                                   "post-set", entity)
              IN  IF post.err # "nil" THEN [post EXCEPT !.tx = st.tx] ELSE post

SetIn(st, entityType, entity) ==
    IF st.tx.readOnly THEN [st EXCEPT !.err = "read-only"]
    ELSE LET pre == RunHooks(st, "pre-set", entity) IN
         IF pre.err # "nil" THEN pre
         ELSE RunHooks([pre EXCEPT !.tx = Stage(st.tx, entityType, GetID(entity), entity)],
                       "post-set", entity)

\* Delete with the bug of not looking at tx.readOnly
DeleteInIgnoringReadOnly(st, entityType, id) ==
    LET got == GetIn(st.tx, st.cache, entityType, id)
        s0 == [st EXCEPT !.cache = got.cache]
        pre == IF got.found THEN RunHooks(s0, "pre-delete", got.entity) ELSE s0
        s1 == [pre EXCEPT !.tx = Stage(st.tx, entityType, id, Nil)]
    IN  IF pre.err # "nil" THEN pre
        ELSE IF got.found THEN RunHooks(s1, "post-delete", got.entity) ELSE s1

DeleteIn(st, entityType, id) ==
    IF st.tx.readOnly THEN [st EXCEPT !.err = "read-only"]
    ELSE LET got == GetIn(st.tx, st.cache, entityType, id)
             s0 == [st EXCEPT !.cache = got.cache]
             pre == IF got.found THEN RunHooks(s0, "pre-delete", got.entity) ELSE s0
             s1 == [pre EXCEPT !.tx = Stage(st.tx, entityType, id, Nil)]
         IN  IF pre.err # "nil" THEN pre
             ELSE IF got.found THEN RunHooks(s1, "post-delete", got.entity) ELSE s1

\* BatchSet with the bug of going on after an item has failed
RECURSIVE BatchSetInContinuing(_, _, _)
BatchSetInContinuing(st, entityType, entities) ==
    IF entities = <<>> THEN st
    ELSE LET s1 == SetIn(st, entityType, Head(entities))
             s2 == BatchSetInContinuing(s1, entityType, Tail(entities))
         IN  IF s1.err # "nil" THEN [s2 EXCEPT !.err = s1.err] ELSE s2

\* the loop of BatchSet (flexdb.go 354-358)
RECURSIVE BatchSetIn(_, _, _)
BatchSetIn(st, entityType, entities) ==
    IF entities = <<>> THEN st
    ELSE LET s1 == SetIn(st, entityType, Head(entities))
         IN  IF s1.err # "nil" THEN s1 ELSE BatchSetIn(s1, entityType, Tail(entities))

RECURSIVE BatchDeleteIn(_, _, _)
BatchDeleteIn(st, entityType, ids) ==
    IF ids = <<>> THEN st
    ELSE LET s1 == DeleteIn(st, entityType, Head(ids))
         IN  IF s1.err # "nil" THEN s1 ELSE BatchDeleteIn(s1, entityType, Tail(ids))

Start(t) == [tx |-> txs[t], cache |-> cache, err |-> "nil", called |-> <<>>]

Staged(t, st, op) ==
    /\ txs' = [txs EXCEPT ![t] = st.tx]
    /\ cache' = st.cache
    /\ ret' = [Ret(op, "") EXCEPT !.err = st.err, !.called = st.called]
    /\ UNCHANGED <<data, indexes, hooks, migrations, mu, calls, file, panicked>>

Set(t, entityType, entity) ==
    /\ ~panicked
    /\ Staged(t, SetIn(Start(t), entityType, entity), "Set")

Delete(t, entityType, id) ==
    /\ ~panicked
    /\ Staged(t, DeleteIn(Start(t), entityType, id), "Delete")

BatchSet(t, entityType, entities) ==
    /\ ~panicked
    /\ Staged(t, BatchSetIn(Start(t), entityType, entities), "BatchSet")

BatchDelete(t, entityType, ids) ==
    /\ ~panicked
    /\ Staged(t, BatchDeleteIn(Start(t), entityType, ids), "BatchDelete")

----------------------------------------------------------------------------
(* Transaction.GetAll and Query.Execute *)

SeqIds(entities) == {GetID(entities[i]) : i \in 1..Len(entities)}

\* the first position of id in entities (the loops that `break` on e.GetID() == id)
IndexOfID(entities, id) == CHOOSE i \in 1..Len(entities) :
    GetID(entities[i]) = id /\ \A j \in 1..(i - 1) : GetID(entities[j]) # id

\* append(entities[:i], entities[i+1:]...)
RemoveAt(entities, i) == SubSeq(entities, 1, i - 1) \o SubSeq(entities, i + 1, Len(entities))

\* the merge of GetAll with the bug of appending every staged record, also the
\* record of an id the store holds
RECURSIVE MergeChangesAppending(_, _, _)
MergeChangesAppending(entities, changed, order) ==
    IF order = <<>> THEN entities
    ELSE LET id == Head(order)
             entity == changed[id]
             next == IF entity = Nil
                     THEN IF id \in SeqIds(entities)
                          THEN RemoveAt(entities, IndexOfID(entities, id)) ELSE entities
                     ELSE Append(entities, entity)
         IN  MergeChangesAppending(next, changed, Tail(order))

\* the second loop of GetAll (flexdb.go 262-287)
RECURSIVE MergeChanges(_, _, _)
MergeChanges(entities, changed, order) ==
    IF order = <<>> THEN entities
    ELSE LET id == Head(order)
             entity == changed[id]
             next == IF entity = Nil
                     THEN IF id \in SeqIds(entities)
                          THEN RemoveAt(entities, IndexOfID(entities, id)) ELSE entities
                     ELSE IF id \in SeqIds(entities)
                          THEN [entities EXCEPT ![IndexOfID(entities, id)] = entity]
                          ELSE Append(entities, entity)
         IN  MergeChanges(next, changed, Tail(order))

\* GetAll with the two map iterations visiting in storeOrder and changeOrder
GetAll(tx, entityType, storeOrder, changeOrder) ==
    MergeChanges([i \in 1..Len(storeOrder) |-> data[entityType][storeOrder[i]]],
                 Sub(tx.changes, entityType), changeOrder)

GetAllOrders(tx, entityType) ==
    Orders(DOMAIN Sub(data, entityType)) \X Orders(DOMAIN Sub(tx.changes, entityType))

\* what a GetAll may end in: it ranges over db.data without the store lock
\* (flexdb.go 257-261), so beside a Commit that is writing the map it either
\* reads the map as it stands or is stopped by the runtime's
\* "fatal error: concurrent map read and map write"
GetAllOutcomes(tx, entityType, storeOrder, changeOrder) ==
    {[results |-> GetAll(tx, entityType, storeOrder, changeOrder), err |-> "nil"]}
    \cup (IF Writing THEN {[results |-> <<>>, err |-> "fatal"]} ELSE {})

\* a call of tx.GetAll(entityType)
DoGetAll(t, entityType) ==
    /\ ~panicked
    /\ \E o \in GetAllOrders(txs[t], entityType) :
          \E out \in GetAllOutcomes(txs[t], entityType, o[1], o[2]) :
             /\ ret' = [Ret("GetAll", t) EXCEPT !.type = entityType,
                                                !.results = out.results, !.err = out.err]
             /\ panicked' = (out.err = "fatal")
    /\ UNCHANGED <<data, indexes, cache, hooks, migrations, mu, calls, file, txs>>

\* a filter built by Query.Where
Where(field, value) == [field |-> field, value |-> value]

Matches(entity, filter) == FieldInterface(entity, filter.field) = filter.value

RECURSIVE Filter(_, _)
Filter(entities, filters) ==
    IF entities = <<>> THEN <<>>
    ELSE LET rest == Filter(Tail(entities), filters)
         IN  IF \A i \in 1..Len(filters) : Matches(Head(entities), filters[i])
             THEN <<Head(entities)>> \o rest ELSE rest

\* a Query as NewQuery and the builder calls Where, OrderBy, Offset, Limit leave it
Query(entityType, filters, orderBy, orderDesc, offset, limit) ==
    [entityType |-> entityType, filters |-> filters, orderBy |-> orderBy,
     orderDesc |-> orderDesc, offset |-> offset, limit |-> limit]

\* the `less` of Execute's sort.Slice on two results whose field is Comparable
Less(q, a, b) ==
    IF q.orderDesc THEN FieldInterface(a, q.orderBy).n > FieldInterface(b, q.orderBy).n
    ELSE FieldInterface(a, q.orderBy).n < FieldInterface(b, q.orderBy).n

\* the type assertion .(Comparable) of `less` fails on a result (as does
\* Interface() on a field the result lacks); sort.Slice calls `less` once there
\* are two results
SortPanics(q, results) ==
    /\ q.orderBy # ""
    /\ Len(results) >= 2
    /\ \E k \in 1..Len(results) : q.orderBy \notin ComparableFields(results[k])

\* what sort.Slice may leave: any order of the results that `less` agrees with
\* (sort.Slice is not stable)
Sorts(q, results) ==
    IF q.orderBy = "" \/ Len(results) < 2 THEN {results}
    ELSE {s \in {[k \in 1..Len(results) |-> results[o[k]]] : o \in Orders(1..Len(results))} :
             \A i, j \in 1..Len(s) : i < j => ~Less(q, s[j], s[i])}

\* the offset and limit steps of Execute (flexdb.go 462-471)
Page(q, results) ==
    LET skipped == IF q.offset > 0 /\ q.offset < Len(results)
                   THEN SubSeq(results, q.offset + 1, Len(results))
                   ELSE results
    IN  IF q.offset > 0 /\ q.offset >= Len(results) THEN <<>>
        ELSE IF q.limit > 0 /\ q.limit < Len(skipped) THEN SubSeq(skipped, 1, q.limit)
        ELSE skipped

\* Execute with the bug of answering the first filter from the index bucket
ExecuteViaIndex(tx, q, storeOrder, changeOrder) ==
    LET entities == GetAll(tx, q.entityType, storeOrder, changeOrder)
        field == q.filters[1].field
        index == Sub(Sub(indexes, q.entityType), field)
        inBucket == {Bucket(index, q.filters[1].value.s)[k] :
                        k \in 1..Len(Bucket(index, q.filters[1].value.s))}
    IN  IF field \in DOMAIN Sub(indexes, q.entityType)
        THEN {[results |-> SelectSeq(entities, LAMBDA e : GetID(e) \in inBucket), err |-> "nil"]}
        ELSE {[results |-> Filter(entities, q.filters), err |-> "nil"]}

\* Execute with the bug of paging before it sorts
ExecutePagingFirst(tx, q, storeOrder, changeOrder) ==
    LET entities == GetAll(tx, q.entityType, storeOrder, changeOrder)
        results == Page(q, Filter(entities, q.filters))
    IN  IF SortPanics(q, results) THEN {[results |-> <<>>, err |-> "panic"]}
        ELSE {[results |-> sorted, err |-> "nil"] : sorted \in Sorts(q, results)}

\* Query.Execute on q of transaction tx, GetAll visiting in storeOrder and
\* changeOrder: the outcomes [results, err], err "panic" when the call panics
ExecuteQ(tx, q, storeOrder, changeOrder) ==
    LET entities == GetAll(tx, q.entityType, storeOrder, changeOrder)
        results == Filter(entities, q.filters)
    IN  IF SortPanics(q, results) THEN {[results |-> <<>>, err |-> "panic"]}
        ELSE {[results |-> Page(q, sorted), err |-> "nil"] : sorted \in Sorts(q, results)}

QueryValues == {StringValue(p[1]) : p \in InputFields} \cup {IntValue(p[2]) : p \in InputFields}

\* the queries of the caller of ranked entities
FilterLists ==
    {<<>>, <<Where("Name", StringValue("a"))>>,
     <<Where("Name", StringValue("a")), Where("Rank", RankValue(1))>>}
Orderings == {<<"", FALSE>>, <<"Rank", FALSE>>, <<"Rank", TRUE>>, <<"Name", FALSE>>}
Offsets == {0, 1, 2}
Limits == {0, 1}
Queries ==
    {Query("test", fs, ob[1], ob[2], off, lim) :
        fs \in FilterLists, ob \in Orderings, off \in Offsets, lim \in Limits}

\* q.Execute() on a query q of transaction t
Execute(t, q) ==
    /\ ~panicked
    /\ \E o \in GetAllOrders(txs[t], q.entityType) :
          \E out \in ExecuteQ(txs[t], q, o[1], o[2]) :
             /\ ret' = [Ret("Execute", t) EXCEPT !.type = q.entityType, !.query = q,
                                                 !.results = out.results, !.err = out.err]
             /\ panicked' = (out.err = "panic")
    /\ UNCHANGED <<data, indexes, cache, hooks, migrations, mu, calls, file, txs>>

----------------------------------------------------------------------------
(* Database.AddMigration and Database.Migrate *)

\* the versions the callers register and migrate to
Versions == {1, 2}
Targets == {0, 1, 2}

\* the up-functions the callers register: an Up sets its entity, if it has one,
\* in the transaction it is handed and returns err
Ups ==
    {[entity |-> TestEntity("1", "a", 1), err |-> "nil"],
     [entity |-> TestEntity("2", "b", 2), err |-> "nil"],
     [entity |-> Nil, err |-> "up failed"]}

\* the most migrations the callers register
MaxMigrations == 3

AddMigration(version, up) ==
    /\ ~panicked
    /\ Len(migrations) < MaxMigrations
    /\ migrations' = Append(migrations, [Version |-> version, Up |-> up])
    /\ ret' = Ret("AddMigration", "")
    /\ UNCHANGED <<data, indexes, cache, hooks, mu, calls, file, txs, panicked>>

\* getCurrentVersion(tx) on st = [tx, cache, err, called, ups]: [version, err, cache]
getCurrentVersion(st) ==
    LET got == GetIn(st.tx, st.cache, "migration", "current_version") IN
    IF ~got.found THEN [version |-> 0, err |-> "nil", cache |-> got.cache]
    ELSE IF got.entity.kind = "MigrationVersion"
    THEN [version |-> got.entity.Version, err |-> "nil", cache |-> got.cache]
    ELSE [version |-> 0, err |-> "invalid entity type for migration version",
          cache |-> got.cache]

setCurrentVersion(st, version) == SetIn(st, "migration", MigrationVersion(version))

\* migration.Up(tx)
Up(up, st) ==
    IF up.entity = Nil THEN [st EXCEPT !.err = up.err]
    ELSE LET s1 == SetIn(st, "test", up.entity)
         IN  IF s1.err # "nil" THEN s1 ELSE [s1 EXCEPT !.err = up.err]

\* the loop of Migrate from the k-th registered migration on (flexdb.go 155-164)
RECURSIVE RunMigrations(_, _, _, _)
RunMigrations(st, currentVersion, targetVersion, k) ==
    IF k > Len(migrations) THEN st
    ELSE LET migration == migrations[k] IN
         IF migration.Version > currentVersion /\ migration.Version <= targetVersion
         THEN LET s0 == [st EXCEPT !.ups = Append(@, migration.Version)]
                  s1 == Up(migration.Up, s0)
                  s2 == setCurrentVersion(s1, migration.Version)
              IN  IF s1.err # "nil" THEN s1
                  ELSE IF s2.err # "nil" THEN s2
                  ELSE RunMigrations(s2, currentVersion, targetVersion, k + 1)
         ELSE RunMigrations(st, currentVersion, targetVersion, k + 1)

\* Migrate up to its Commit: the transaction it opened, with what it staged
MigrationRun(targetVersion) ==
    LET st == [tx |-> Transaction(FALSE), cache |-> cache, err |-> "nil",
               called |-> <<>>, ups |-> <<>>]
        current == getCurrentVersion(st)
        s0 == [st EXCEPT !.cache = current.cache]
    IN  IF current.err # "nil" THEN [s0 EXCEPT !.err = current.err]
        ELSE RunMigrations(s0, current.version, targetVersion, 1)

MigrateRet(run, targetVersion, err) ==
    [Ret("Migrate", "") EXCEPT !.value = IntValue(targetVersion), !.err = err,
                               !.ups = run.ups, !.called = run.called]

\* `return err` of Migrate: the deferred Rollback empties its transaction
MigrateReturns(run, targetVersion) ==
    /\ cache' = run.cache
    /\ ret' = MigrateRet(run, targetVersion, run.err)
    /\ UNCHANGED <<data, indexes, hooks, migrations, mu, calls, file, txs, panicked>>

\* `return tx.Commit()` of Migrate, save() ending in `saved`
MigrateCommits(run, targetVersion, saved) ==
    \E order \in IterationOrders(run.tx.changes) :
        LET db == ApplyChanges([data |-> data, cache |-> run.cache, indexes |-> indexes,
                                panic |-> FALSE], run.tx.changes, order)
        IN  /\ IndexesWithin(db.indexes, MaxIndexed)
            /\ data' = db.data
            /\ cache' = db.cache
            /\ indexes' = db.indexes
            /\ panicked' = db.panic
            /\ IF db.panic
               THEN /\ ret' = MigrateRet(run, targetVersion, "panic")
                    /\ UNCHANGED file
               ELSE /\ file' = IF saved = "nil" THEN Saved(db.data) ELSE file
                    /\ ret' = MigrateRet(run, targetVersion,
                                         IF run.err # "nil" THEN run.err ELSE saved)
            /\ UNCHANGED <<hooks, migrations, mu, calls, txs>>

\* Migrate with the bug of committing what the run staged before an up-function failed
MigrateCommittingPartial(targetVersion, saved) ==
    /\ ~panicked
    /\ MigrateCommits(MigrationRun(targetVersion), targetVersion, saved)

\* Database.Migrate
Migrate(targetVersion, saved) ==
    /\ ~panicked
    /\ LET run == MigrationRun(targetVersion)
       IN  IF run.err # "nil" THEN MigrateReturns(run, targetVersion)
           ELSE MigrateCommits(run, targetVersion, saved)

----------------------------------------------------------------------------
(* Commit and Get statement by statement, for callers running beside one   *)
(* another: a caller is in one call at a time                              *)

\* tx.Commit() is called: the read-only return (flexdb.go 189-191), or on to
\* tx.db.mu.Lock()
CommitCall(t) ==
    /\ ~panicked
    /\ Idle(t)
    /\ IF txs[t].readOnly
       THEN /\ ret' = Ret("Commit", t)
            /\ UNCHANGED <<mu, calls>>
       ELSE /\ calls' = [calls EXCEPT ![t] = [NoCall EXCEPT !.op = "Commit", !.pc = "Lock"]]
            /\ mu' = [mu EXCEPT !.waiting = @ \cup {t}]
            /\ UNCHANGED ret
    /\ UNCHANGED <<data, indexes, cache, hooks, migrations, file, txs, panicked>>

\* Lock returns (flexdb.go 193): nobody writes and nobody reads; the loops over
\* tx.changes will visit the overlay in some order
CommitLock(t) ==
    /\ ~panicked
    /\ calls[t].op = "Commit" /\ calls[t].pc = "Lock"
    /\ mu.writer = "" /\ mu.readers = {}
    /\ mu' = [mu EXCEPT !.writer = t, !.waiting = @ \ {t}]
    /\ \E order \in IterationOrders(txs[t].changes) :
          calls' = [calls EXCEPT ![t].pc = "apply", ![t].todo = order]
    /\ UNCHANGED <<data, indexes, cache, hooks, migrations, file, txs, ret, panicked>>

\* one iteration of the inner loop (flexdb.go 200-213); a panic unwinds through
\* the deferred Unlock
CommitApply(t) ==
    /\ ~panicked
    /\ calls[t].op = "Commit" /\ calls[t].pc = "apply" /\ calls[t].todo # <<>>
    /\ LET entry == Head(calls[t].todo)
           db == ApplyEntry([data |-> data, cache |-> cache, indexes |-> indexes, panic |-> FALSE],
                            entry[1], entry[2], txs[t].changes[entry[1]][entry[2]])
       IN  /\ IndexesWithin(db.indexes, MaxIndexed)
           /\ data' = db.data
           /\ cache' = db.cache
           /\ indexes' = db.indexes
           /\ panicked' = db.panic
           /\ IF db.panic
              THEN /\ ret' = [Ret("Commit", t) EXCEPT !.err = "panic"]
                   /\ calls' = [calls EXCEPT ![t] = NoCall]
                   /\ mu' = [mu EXCEPT !.writer = ""]
              ELSE /\ calls' = [calls EXCEPT ![t].todo = Tail(@)]
                   /\ UNCHANGED <<ret, mu>>
    /\ UNCHANGED <<hooks, migrations, file, txs>>

\* CommitReturn with the bug of unlocking only after a save that succeeded
CommitReturnHoldingLock(t, saved) ==
    /\ ~panicked
    /\ calls[t].op = "Commit" /\ calls[t].pc = "apply" /\ calls[t].todo = <<>>
    /\ txs' = [txs EXCEPT ![t].committed = TRUE]
    /\ file' = IF saved = "nil" THEN Saved(data) ELSE file
    /\ ret' = [Ret("Commit", t) EXCEPT !.err = saved]
    /\ calls' = [calls EXCEPT ![t] = NoCall]
    /\ mu' = IF saved = "nil" THEN [mu EXCEPT !.writer = ""] ELSE mu
    /\ UNCHANGED <<data, indexes, cache, hooks, migrations, panicked>>

\* tx.committed = true; return tx.db.save() (flexdb.go 216-217), save() ending
\* in `saved`, and the deferred Unlock
CommitReturn(t, saved) ==
    /\ ~panicked
    /\ calls[t].op = "Commit" /\ calls[t].pc = "apply" /\ calls[t].todo = <<>>
    /\ txs' = [txs EXCEPT ![t].committed = TRUE]
    /\ file' = IF saved = "nil" THEN Saved(data) ELSE file
    /\ ret' = [Ret("Commit", t) EXCEPT !.err = saved]
    /\ calls' = [calls EXCEPT ![t] = NoCall]
    /\ mu' = [mu EXCEPT !.writer = ""]
    /\ UNCHANGED <<data, indexes, cache, hooks, migrations, panicked>>

\* tx.Get(entityType, id) is called: the return from the overlay (flexdb.go
\* 229-233), or on to tx.db.mu.RLock()
GetCall(t, entityType, id) ==
    /\ ~panicked
    /\ Idle(t)
    /\ IF entityType \in DOMAIN txs[t].changes /\ id \in DOMAIN txs[t].changes[entityType]
       THEN /\ ret' = [Ret("Get", t) EXCEPT !.type = entityType, !.id = id, !.found = TRUE,
                                            !.entity = txs[t].changes[entityType][id]]
            /\ UNCHANGED calls
       ELSE /\ calls' = [calls EXCEPT ![t] = [NoCall EXCEPT !.op = "Get", !.pc = "RLock", !.id = id]]
            /\ UNCHANGED ret
    /\ UNCHANGED <<data, indexes, cache, hooks, migrations, mu, file, txs, panicked>>

\* RLock returns (flexdb.go 236): nobody writes, and nobody is blocked in Lock
GetRLock(t) ==
    /\ ~panicked
    /\ calls[t].op = "Get" /\ calls[t].pc = "RLock"
    /\ mu.writer = "" /\ mu.waiting = {}
    /\ mu' = [mu EXCEPT !.readers = @ \cup {t}]
    /\ calls' = [calls EXCEPT ![t].pc = "read"]
    /\ UNCHANGED <<data, indexes, cache, hooks, migrations, file, txs, ret, panicked>>

\* the store part of Get (flexdb.go 239-251) and the deferred RUnlock
GetReturn(t, entityType) ==
    /\ ~panicked
    /\ calls[t].op = "Get" /\ calls[t].pc = "read"
    /\ LET got == GetIn(txs[t], cache, entityType, calls[t].id)
       IN  /\ cache' = got.cache
           /\ ret' = [Ret("Get", t) EXCEPT !.type = entityType, !.id = calls[t].id,
                                           !.found = got.found, !.entity = got.entity]
    /\ calls' = [calls EXCEPT ![t] = NoCall]
    /\ mu' = [mu EXCEPT !.readers = @ \ {t}]
    /\ UNCHANGED <<data, indexes, hooks, migrations, file, txs, panicked>>

----------------------------------------------------------------------------

Next ==
    \/ \E t \in Txs, readOnly \in BOOLEAN : Transact(t, readOnly)
    \/ \E t \in Txs : \E e \in EntitiesOf(t) : Set(t, "test", e)
    \/ \E t \in Txs : \E i \in IdsOf(t) : Delete(t, "test", i)
    \/ \E t \in Txs : \E es \in Slices(EntitiesOf(t), MaxBatch) : BatchSet(t, "test", es)
    \/ \E t \in Txs : \E is \in Slices(IdsOf(t), MaxBatch) : BatchDelete(t, "test", is)
    \/ \E t \in Txs, i \in Ids : Get(t, "test", i)
    \/ \E t \in Txs, saved \in SaveOutcomes : Commit(t, saved)
    \/ \E t \in Txs : Rollback(t)
    \/ \E k \in DOMAIN cache : Expire(k)

Spec == Init /\ [][Next]_vars

\* one caller, every input entity, indexes and queries
NextIndex ==
    \/ Transact("t1", FALSE)
    \/ \E e \in InputEntities : Set("t1", "test", e)
    \/ \E i \in Ids : Delete("t1", "test", i)
    \/ \E es \in Slices(EntitiesOf("t1"), MaxBatch) : BatchSet("t1", "test", es)
    \/ \E is \in Slices(Ids, MaxBatch) : BatchDelete("t1", "test", is)
    \/ Commit("t1", "nil")
    \/ Rollback("t1")
    \/ \E f \in IndexFields : AddIndex("test", f)
    \/ \E f \in IndexFields, v \in QueryValues :
          Execute("t1", Query("test", <<Where(f, v)>>, "", FALSE, 0, 0))

SpecIndex == Init /\ [][NextIndex]_vars

\* NewDatabase, and db.Transact(false) by every caller
InitWriting == Init /\ txs = [t \in Txs |-> Transaction(FALSE)]

\* one caller working on ranked entities: staging, committing and GetAll
NextQuery ==
    \/ \E e \in RankedEntities : Set("t1", "test", e)
    \/ \E i \in QueryIds : Delete("t1", "test", i)
    \/ Commit("t1", "nil")
    \/ Rollback("t1")
    \/ DoGetAll("t1", "test")

SpecQuery == InitWriting /\ [][NextQuery]_vars

\* one caller staging and committing the ranked entities of two ids and querying them
NextExecute ==
    \/ \E e \in {r \in RankedEntities : r.ID \in Ids} : Set("t1", "test", e)
    \/ \E i \in Ids : Delete("t1", "test", i)
    \/ Commit("t1", "nil")
    \/ Rollback("t1")
    \/ \E q \in Queries : Execute("t1", q)

SpecExecute == InitWriting /\ [][NextExecute]_vars

\* one caller staging and committing in one transaction under registered hooks
NextHooks ==
    \/ \E o \in HookOps, h \in Hooks : RegisterHook(o, h)
    \/ \E e \in EntitiesOf("t1") : Set("t1", "test", e)
    \/ \E i \in Ids : Delete("t1", "test", i)
    \/ \E es \in Slices(EntitiesOf("t1"), MaxBatch) : BatchSet("t1", "test", es)
    \/ \E is \in Slices(Ids, MaxBatch) : BatchDelete("t1", "test", is)
    \/ Commit("t1", "nil")

SpecHooks == InitWriting /\ [][NextHooks]_vars

\* a caller registering migrations and migrating
NextMigrate ==
    \/ \E v \in Versions, up \in Ups : AddMigration(v, up)
    \/ \E target \in Targets : Migrate(target, "nil")

SpecMigrate == InitWriting /\ [][NextMigrate]_vars

\* one caller holding on to one write transaction through commits and rollbacks
NextLifecycle ==
    \/ \E e \in InputEntities : Set("t1", "test", e)
    \/ \E i \in Ids : Delete("t1", "test", i)
    \/ \E i \in Ids : Get("t1", "test", i)
    \/ Commit("t1", "nil")
    \/ Rollback("t1")

SpecLifecycle == InitWriting /\ [][NextLifecycle]_vars

\* two callers at work beside one another, each on its own write transaction:
\* staging, committing and reading one record
NextLocking ==
    \/ \E t \in Txs : \E e \in EntitiesOf(t) : Idle(t) /\ Set(t, "test", e)
    \/ \E t \in Txs : CommitCall(t)
    \/ \E t \in Txs : CommitLock(t)
    \/ \E t \in Txs : CommitApply(t)
    \/ \E t \in Txs, saved \in SaveOutcomes : CommitReturn(t, saved)
    \/ \E t \in Txs, i \in Ids : GetCall(t, "test", i)
    \/ \E t \in Txs : GetRLock(t)
    \/ \E t \in Txs : GetReturn(t, "test")

SpecLocking == InitWriting /\ [][NextLocking]_vars

\* the same callers, the second also listing the records with GetAll
NextRacing ==
    \/ NextLocking
    \/ Idle("t2") /\ DoGetAll("t2", "test")

SpecRacing == InitWriting /\ [][NextRacing]_vars

\* the scheduling of the callers at work beside one another: a caller inside
\* Lock..Unlock or RLock..RUnlock runs on to its return (nothing in there
\* waits for another caller), and sync.RWMutex hands the lock to a caller
\* blocked in Lock (a blocked Lock keeps new readers out and the mutex's
\* starvation mode serves waiters in turn)
Scheduling ==
    \A t \in Txs :
        /\ SF_vars(CommitLock(t))
        /\ WF_vars(CommitApply(t))
        /\ WF_vars(\E saved \in SaveOutcomes : CommitReturn(t, saved))
        /\ WF_vars(GetRLock(t))
        /\ WF_vars(GetReturn(t, "test"))

SpecLockingFair == SpecLocking /\ Scheduling

\* the (type, id) pairs of a caller whose names hold the separator of
\* getCacheKey, and the record it sets for each
KeyPairs == {<<"a", "c">>, <<"a", "b:c">>, <<"a:b", "c">>}

KeyEntity(p) == TestEntity(p[2], p[1], 1)

\* one caller staging, committing and reading these records while cache items expire
NextCacheKeys ==
    \/ \E p \in KeyPairs : Set("t1", p[1], KeyEntity(p))
    \/ \E p \in KeyPairs : Delete("t1", p[1], p[2])
    \/ \E p \in KeyPairs : Get("t1", p[1], p[2])
    \/ Commit("t1", "nil")
    \/ Rollback("t1")
    \/ \E k \in DOMAIN cache : Expire(k)

SpecCacheKeys == InitWriting /\ [][NextCacheKeys]_vars

\* a caller registering migrations and migrating, across restarts of the process
NextRestart ==
    \/ \E v \in Versions, up \in Ups : AddMigration(v, up)
    \/ \E target \in Targets : Migrate(target, "nil")
    \/ NewDatabase

SpecRestart == InitWriting /\ [][NextRestart]_vars

----------------------------------------------------------------------------
(* What the claims speak of *)

\* the number of times id occurs in the bucket
Count(bucket, id) == Cardinality({k \in 1..Len(bucket) : bucket[k] = id})

\* the (found, entity) pair of a lookup in the canonical map
Lookup(d, entityType, id) ==
    IF entityType \in DOMAIN d /\ id \in DOMAIN d[entityType]
    THEN <<TRUE, d[entityType][id]>> ELSE <<FALSE, Nil>>

\* the overlay entry of a transaction: <<staged, entity>>
Overlay(tx, entityType, id) ==
    IF entityType \in DOMAIN tx.changes /\ id \in DOMAIN tx.changes[entityType]
    THEN <<TRUE, tx.changes[entityType][id]>> ELSE <<FALSE, Nil>>

\* every id of the canonical map sits once in the bucket of its value and in no other
IndexExact ==
    \A t \in DOMAIN indexes : \A f \in DOMAIN indexes[t] :
        /\ \A i \in DOMAIN Sub(data, t) :
              /\ FieldString(data[t][i], f) \in DOMAIN indexes[t][f]
              /\ \A v \in DOMAIN indexes[t][f] :
                    Count(indexes[t][f][v], i) = IF v = FieldString(data[t][i], f) THEN 1 ELSE 0
        /\ \A v \in DOMAIN indexes[t][f] : \A k \in 1..Len(indexes[t][f][v]) :
              indexes[t][f][v][k] \in DOMAIN Sub(data, t)

\* no bucket holds an id that the canonical map lacks
NoDanglingIds ==
    \A t \in DOMAIN indexes : \A f \in DOMAIN indexes[t] : \A v \in DOMAIN indexes[t][f] :
        \A k \in 1..Len(indexes[t][f][v]) : indexes[t][f][v][k] \in DOMAIN Sub(data, t)

\* C1: after every successful Commit, each record's id appears exactly once in
\* the bucket of its current value of every indexed field and in no other
\* bucket, and no bucket holds a stale or duplicate id.
C1_IndexInvariantAfterCommit ==
    [][(ret'.op = "Commit" /\ ret'.err = "nil" /\ ~txs[ret'.tx].readOnly
            /\ ~txs[ret'.tx].committed) => IndexExact']_vars

\* C2: a Commit of a Delete on an indexed type completes normally and takes the
\* id out of every bucket; no bucket ever holds an id absent from the canonical map.
C2_DeleteLeavesNoIndexEntry ==
    [][(/\ ret'.op = "Commit"
        /\ ~txs[ret'.tx].readOnly
        /\ ~txs[ret'.tx].committed
        /\ DOMAIN Sub(indexes, "test") # {}
        /\ \E i \in DOMAIN Sub(data, "test") : Overlay(txs[ret'.tx], "test", i) = <<TRUE, Nil>>)
       => (ret'.err # "panic" /\ NoDanglingIds')]_vars

\* the transaction's merged view of a type: the ids and their records
MergedIds(tx, entityType) ==
    {i \in DOMAIN Sub(data, entityType) : Overlay(tx, entityType, i) # <<TRUE, Nil>>}
        \cup {i \in DOMAIN Sub(tx.changes, entityType) : tx.changes[entityType][i] # Nil}

MergedEntity(tx, entityType, id) ==
    IF Overlay(tx, entityType, id)[1] THEN tx.changes[entityType][id] ELSE data[entityType][id]

\* C3: on an indexed field F, Where(F, v).Execute() returns exactly the ids of
\* the records of the merged view whose F equals v, each once.
C3_WhereIsLinearScan ==
    (/\ ret.op = "Execute"
     /\ Len(ret.query.filters) = 1
     /\ ret.query.filters[1].field \in DOMAIN Sub(indexes, ret.type)) =>
        /\ SeqIds(ret.results) =
              {i \in MergedIds(txs[ret.tx], ret.type) :
                  FieldInterface(MergedEntity(txs[ret.tx], ret.type, i), ret.query.filters[1].field)
                      = ret.query.filters[1].value}
        /\ \A i \in SeqIds(ret.results) :
              Cardinality({k \in 1..Len(ret.results) : GetID(ret.results[k]) = i}) = 1
        /\ \A k \in 1..Len(ret.results) :
              ret.results[k] = MergedEntity(txs[ret.tx], ret.type, GetID(ret.results[k]))

\* a query on an indexed field whose bucket has gone stale, over an overlay that
\* hides a stored record, answered with a record
C3_Witness ==
    /\ ret.op = "Execute"
    /\ Len(ret.query.filters) = 1
    /\ ret.query.filters[1].field \in DOMAIN Sub(indexes, ret.type)
    /\ Len(ret.results) = 1
    /\ ret.query.filters[1].value.type = "string"
    /\ LET bucket == Bucket(indexes[ret.type][ret.query.filters[1].field],
                            ret.query.filters[1].value.s)
       IN  SeqIds(ret.results) # {bucket[k] : k \in 1..Len(bucket)}
    /\ \E i \in DOMAIN Sub(data, ret.type) : Overlay(txs[ret.tx], ret.type, i) = <<TRUE, Nil>>

\* C4: a Commit on a transaction that is already committed changes neither the
\* canonical map, the indexes, the cache nor the persisted file.
C4_SecondCommitIsNoOp ==
    [][(ret'.op = "Commit" /\ ~txs[ret'.tx].readOnly /\ txs[ret'.tx].committed
            /\ file = Saved(data))
       => (data' = data /\ indexes' = indexes /\ cache' = cache /\ file' = file)]_vars

\* C5: when save fails, Commit returns the error, leaves the transaction not
\* committed, and the canonical map, indexes and cache are as before the call.
C5_FailedSaveLeavesNoTrace ==
    [][(ret'.op = "Commit" /\ ret'.err = "save failed" /\ ~txs[ret'.tx].committed
            /\ Entries(txs[ret'.tx].changes) # {})
       => (~txs'[ret'.tx].committed /\ data' = data /\ indexes' = indexes /\ cache' = cache)]_vars

\* the calls that work on a transaction's overlay, and Transact
StagingOps == {"Set", "Delete", "BatchSet", "BatchDelete", "Rollback", "Transact"}

KnownKeys == {getCacheKey(t, i) : t \in EntityTypes, i \in Ids}

\* every cache item is the canonical map's record of its (type, id)
CacheIsCanonical ==
    /\ DOMAIN cache \subseteq KnownKeys
    /\ \A t \in EntityTypes, i \in Ids :
          getCacheKey(t, i) \in DOMAIN cache
              => Lookup(data, t, i) = <<TRUE, cache[getCacheKey(t, i)]>>

\* a Get by a transaction whose overlay misses the record returned the
\* canonical map's record
GetReadCanonical ==
    (ret.op = "Get" /\ ~Overlay(txs[ret.tx], ret.type, ret.id)[1])
        => <<ret.found, ret.entity>> = Lookup(data, ret.type, ret.id)

\* after a successful Commit every other transaction gets what was committed
OthersReadCommitted ==
    (ret.op = "Commit" /\ ret.err = "nil") =>
        \A r \in Txs \ {ret.tx}, i \in Ids :
            (Overlay(txs[ret.tx], "test", i)[1] /\ ~Overlay(txs[r], "test", i)[1])
                => LET got == GetIn(txs[r], cache, "test", i)
                       staged == Overlay(txs[ret.tx], "test", i)[2]
                   IN  IF staged = Nil THEN ~got.found
                       ELSE got.found /\ got.entity = staged

\* C6: a Get by a transaction whose own overlay does not hold the record returns
\* the canonical map's record (or not-found), whatever other transactions have
\* staged; staging changes neither the canonical map nor what the cache serves,
\* so a staged change shows to others only once Commit has applied it; and right
\* after a successful Commit every other transaction, old or new, gets what was
\* committed.
C6_NoPrematureVisibility ==
    /\ [](GetReadCanonical /\ OthersReadCommitted)
    /\ [][ret'.op \in StagingOps
            => (data' = data /\ \A k \in DOMAIN cache' \cap DOMAIN cache : cache'[k] = cache[k])]_vars

\* a reader gets the committed record while another, uncommitted transaction
\* holds a different staged record for the same id
C6_Witness ==
    /\ ret.op = "Get"
    /\ ret.found
    /\ ~Overlay(txs[ret.tx], ret.type, ret.id)[1]
    /\ \E w \in Txs \ {ret.tx} :
          /\ ~txs[w].committed
          /\ Overlay(txs[w], ret.type, ret.id)[1]
          /\ Overlay(txs[w], ret.type, ret.id)[2] # ret.entity
          /\ Overlay(txs[w], ret.type, ret.id)[2] # Nil

\* a step writes a cache item: a key appears or its item changes
CacheWritten == \E k \in DOMAIN cache' : k \notin DOMAIN cache \/ cache'[k] # cache[k]

C8_StagingAndRollbackLeaveStore ==
    [][ret'.op \in {"Set", "Delete", "BatchSet", "BatchDelete", "Rollback"}
          => (data' = data /\ indexes' = indexes /\ file' = file)]_vars

\* a Rollback has discarded staged changes over a store with records and an index
C8_Witness ==
    /\ ret.op = "Rollback"
    /\ ret.discarded > 0
    /\ DOMAIN Sub(data, "test") # {}
    /\ DOMAIN Sub(indexes, "test") # {}

\* what a Get of (type, id) returns to a transaction: <<found, entity>>
GetResult(tx, entityType, id) ==
    <<GetIn(tx, cache, entityType, id).found, GetIn(tx, cache, entityType, id).entity>>

\* what a new transaction gets for every id
NewTxView == [i \in Ids |-> GetResult(Transaction(TRUE), "test", i)]

\* after a successful Commit the records it set are what its own transaction
\* and a new transaction get
CommittedSetsAreRead ==
    (ret.op = "Commit" /\ ret.err = "nil") =>
        \A i \in Ids :
            (Overlay(txs[ret.tx], "test", i)[1] /\ Overlay(txs[ret.tx], "test", i)[2] # Nil)
                => /\ GetResult(txs[ret.tx], "test", i) = <<TRUE, txs[ret.tx].changes["test"][i]>>
                   /\ NewTxView[i] = <<TRUE, txs[ret.tx].changes["test"][i]>>

\* a new transaction gets the canonical map's record of every id
NewTxReadsCanonical == \A i \in Ids : NewTxView[i] = Lookup(data, "test", i)

\* C9: right after a successful Commit, a Get of every record it set returns that
\* record, in the committing transaction and in a new one; from then on a new
\* transaction gets the canonical map's record, which only a Commit changes.
C9_CommittedSetIsRead ==
    /\ [](CommittedSetsAreRead /\ NewTxReadsCanonical)
    /\ [][ret'.op # "Commit" => data' = data]_vars

\* a Commit has succeeded with a record that replaces the one the cache held
C9_Witness ==
    /\ ret.op = "Commit"
    /\ ret.err = "nil"
    /\ \E i \in Ids :
          /\ Overlay(txs[ret.tx], "test", i)[1]
          /\ Overlay(txs[ret.tx], "test", i)[2] # Nil
          /\ file.exists /\ "test" \in DOMAIN file.content /\ i \in DOMAIN file.content["test"]
          /\ file.content["test"][i].Name = "b"
          /\ getCacheKey("test", i) \in DOMAIN cache

\* C10: Get reports not-found for a tombstone in the overlay, returns the staged
\* record when the overlay holds one, and the store's value on an overlay miss.
C10_ReadYourOwnWrites ==
    ret.op = "Get" =>
        LET staged == Overlay(txs[ret.tx], ret.type, ret.id) IN
        IF staged[1]
        THEN IF staged[2] = Nil THEN ~ret.found
             ELSE ret.found /\ ret.entity = staged[2]
        ELSE <<ret.found, ret.entity>> = Lookup(data, ret.type, ret.id)

\* C11: GetAll returns exactly one record per id of (store ids minus the ids
\* tombstoned in the overlay) union (ids with a staged record), and for an id
\* with a staged record it returns the staged record, not the store's.
C11_GetAllMergesOverlay ==
    ret.op = "GetAll" =>
        /\ SeqIds(ret.results) = MergedIds(txs[ret.tx], ret.type)
        /\ Len(ret.results) = Cardinality(MergedIds(txs[ret.tx], ret.type))
        /\ \A k \in 1..Len(ret.results) :
              ret.results[k] = MergedEntity(txs[ret.tx], ret.type, GetID(ret.results[k]))

\* GetAll has answered over an overlay that tombstones one stored id, replaces
\* the record of another and adds a third
C11_Witness ==
    /\ ret.op = "GetAll"
    /\ Len(ret.results) = 2
    /\ \E i, j, k \in QueryIds :
          /\ Lookup(data, "test", i)[1] /\ Overlay(txs[ret.tx], "test", i) = <<TRUE, Nil>>
          /\ Lookup(data, "test", j)[1] /\ Overlay(txs[ret.tx], "test", j)[1]
          /\ Overlay(txs[ret.tx], "test", j)[2] \notin {Nil, data["test"][j]}
          /\ ~Lookup(data, "test", k)[1] /\ Overlay(txs[ret.tx], "test", k)[1]
          /\ Overlay(txs[ret.tx], "test", k)[2] # Nil

\* the step is a Set, Delete, BatchSet or BatchDelete on t, the batches of at
\* least `least` items
StagingCallOn(t, least) ==
    \/ ret'.op = "Set" /\ \E e \in EntitiesOf(t) : Set(t, "test", e)
    \/ ret'.op = "Delete" /\ \E i \in IdsOf(t) : Delete(t, "test", i)
    \/ ret'.op = "BatchSet" /\ \E es \in Slices(EntitiesOf(t), MaxBatch) :
                                  Len(es) >= least /\ BatchSet(t, "test", es)
    \/ ret'.op = "BatchDelete" /\ \E is \in Slices(IdsOf(t), MaxBatch) :
                                     Len(is) >= least /\ BatchDelete(t, "test", is)

\* on a read-only t: a staging call with batches of at least `least` items fails
\* and changes nothing, and Commit succeeds and changes nothing
ReadOnlyCallsChangeNothing(t, least) ==
    /\ StagingCallOn(t, least) =>
          /\ ret'.err # "nil"
          /\ UNCHANGED <<txs, data, indexes, cache, file>>
    /\ (ret'.op = "Commit" /\ \E saved \in SaveOutcomes : Commit(t, saved)) =>
          /\ ret'.err = "nil"
          /\ UNCHANGED <<txs, data, indexes, cache, file>>

\* C12 as claimed: on a read-only transaction Set, Delete, BatchSet and
\* BatchDelete fail with an error and stage nothing, and Commit returns success
\* without changing the canonical map, the indexes or the file.
C12_ReadOnlyCallsFail ==
    [][\A t \in Txs : txs[t].readOnly => ReadOnlyCallsChangeNothing(t, 0)]_vars

\* C12 as amended: the same for Set, Delete and the batches of at least one
\* item; a batch of no items has nothing to fail on, returns success and
\* stages nothing.
C12_ReadOnlyChangesNothing ==
    [][\A t \in Txs : txs[t].readOnly =>
          /\ ReadOnlyCallsChangeNothing(t, 1)
          /\ StagingCallOn(t, 0) => UNCHANGED <<txs, data, indexes, cache, file>>]_vars

\* a batch on a read-only transaction has been refused while another
\* transaction holds staged changes over a store with records
C12_Witness ==
    /\ ret.op \in {"BatchSet", "BatchDelete"}
    /\ ret.err = "read-only"
    /\ DOMAIN Sub(data, "test") # {}
    /\ \E t \in Txs : txs[t].readOnly /\ txs[t].changes = EmptyMap
    /\ \E t \in Txs : ~txs[t].readOnly /\ txs[t].changes # EmptyMap

\* the calls of the first k hooks of an operation, in registration order
HookCalls(operation, k) == [j \in 1..k |-> <<operation, HooksOf(operation)[j].name>>]

\* the positions of the hooks of an operation that fail on the entity
Failing(operation, entity) ==
    {k \in 1..Len(HooksOf(operation)) : HookResult(HooksOf(operation)[k], entity) # "nil"}

First(S) == CHOOSE k \in S : \A j \in S : k <= j

\* what C13 asks of a step that is Set(t, "test", e) on a writable transaction
SetRunsPreHooks(t, e) ==
    LET pre == HooksOf("pre-set")
        failing == Failing("pre-set", e)
    IN  IF failing = {}
        THEN /\ Len(ret'.called) >= Len(pre)
             /\ SubSeq(ret'.called, 1, Len(pre)) = HookCalls("pre-set", Len(pre))
             /\ Overlay(txs'[t], "test", e.ID) = <<TRUE, e>>
        ELSE /\ ret'.called = HookCalls("pre-set", First(failing))
             /\ ret'.err = HookError(pre[First(failing)])
             /\ UNCHANGED <<txs, data, indexes, cache, file>>

\* C13: Set runs the pre-set hooks in registration order; when one fails, Set
\* returns its error, no later pre-set hook and no post-set hook runs, nothing
\* is staged, and the transaction is left as it was, so that later calls on it
\* work as they would have.
C13_PreSetHookRejects ==
    [][\A e \in EntitiesOf("t1") :
          (ret'.op = "Set" /\ ~txs["t1"].readOnly /\ Set("t1", "test", e))
              => SetRunsPreHooks("t1", e)]_vars

\* a Set has been rejected by a pre-set hook, with a post-set hook registered,
\* on a transaction that holds a staged record of another id
C13_Witness ==
    /\ ret.op = "Set"
    /\ ret.err = "rejected by no2"
    /\ HooksOf("post-set") # <<>>
    /\ Overlay(txs["t1"], "test", "1")[1]
    /\ ~Overlay(txs["t1"], "test", "2")[1]

\* the record of (type, id) exists in the view of the transaction: staged and
\* not a tombstone, or not in the overlay and in the canonical map
ExistsInView(tx, entityType, id) ==
    IF Overlay(tx, entityType, id)[1] THEN Overlay(tx, entityType, id)[2] # Nil
    ELSE Lookup(data, entityType, id)[1]

\* C14: Delete runs the pre-delete and post-delete hooks only when the record
\* exists in the transaction's view; when it does not, also when the transaction
\* has already staged a delete of it, no delete hook runs; and unless a
\* pre-delete hook fails a tombstone is staged either way.
C14_DeleteHooksOnlyForExisting ==
    [][\A i \in Ids :
          (ret'.op = "Delete" /\ Delete("t1", "test", i))
              => /\ ~ExistsInView(txs["t1"], "test", i) => ret'.called = <<>>
                 /\ (ExistsInView(txs["t1"], "test", i) /\ Failing("pre-delete", MergedEntity(txs["t1"], "test", i)) = {})
                      => ret'.called = HookCalls("pre-delete", Len(HooksOf("pre-delete")))
                                          \o SubSeq(ret'.called, Len(HooksOf("pre-delete")) + 1, Len(ret'.called))
                 /\ (ret'.called = <<>> \/ ret'.called[Len(ret'.called)][1] # "pre-delete" \/ ret'.err = "nil")
                      => Overlay(txs'["t1"], "test", i) = <<TRUE, Nil>>]_vars

\* the outcome of calling Set on items 1..k one after another, each call on
\* what the call before it left, whatever that call returned
RECURSIVE SetsApplied(_, _, _, _)
SetsApplied(st, entityType, entities, k) ==
    IF k = 0 THEN st
    ELSE LET before == SetsApplied(st, entityType, entities, k - 1)
             clean == [before EXCEPT !.err = "nil"]
         IN  SetIn(clean, entityType, entities[k])

\* the same for Delete
RECURSIVE DeletesApplied(_, _, _, _)
DeletesApplied(st, entityType, ids, k) ==
    IF k = 0 THEN st
    ELSE LET before == DeletesApplied(st, entityType, ids, k - 1)
             clean == [before EXCEPT !.err = "nil"]
         IN  DeleteIn(clean, entityType, ids[k])

\* a batch is the calls on its items in input order up to and including the
\* first that fails, and no call after it
BatchSetStopsAtFailure(t, es) ==
    LET stops == {k \in 1..Len(es) : SetsApplied(Start(t), "test", es, k).err # "nil"}
    IN  BatchSetIn(Start(t), "test", es)
            = SetsApplied(Start(t), "test", es, IF stops = {} THEN Len(es) ELSE First(stops))

BatchDeleteStopsAtFailure(t, is) ==
    LET stops == {k \in 1..Len(is) : DeletesApplied(Start(t), "test", is, k).err # "nil"}
    IN  BatchDeleteIn(Start(t), "test", is)
            = DeletesApplied(Start(t), "test", is, IF stops = {} THEN Len(is) ELSE First(stops))

\* whatever batch the caller hands in next, in whatever state
BatchesStopAtFailure ==
    /\ \A es \in Slices(EntitiesOf("t1"), MaxBatch) : BatchSetStopsAtFailure("t1", es)
    /\ \A is \in Slices(Ids, MaxBatch) : BatchDeleteStopsAtFailure("t1", is)

\* the ids the transaction has tombstoned
Tombstoned(tx, entityType) ==
    {i \in DOMAIN Sub(tx.changes, entityType) : tx.changes[entityType][i] = Nil}

\* the Commit that follows a successful BatchDelete makes the tombstoned ids not
\* retrievable and leaves every other retrievable id retrievable
CommittedBatchDelete(t) ==
    (ret.op = "BatchDelete" /\ ret.err = "nil" /\ ret'.op = "Commit" /\ ret'.err = "nil")
        => \A i \in Ids :
              IF i \in Tombstoned(txs[t], "test") THEN ~NewTxView'[i][1]
              ELSE NewTxView[i][1] => NewTxView'[i][1]

\* C15: BatchSet and BatchDelete apply Set / Delete to their items in input
\* order and stop at the first item that fails, returning its error: no later
\* item is staged or has its hooks run, and what was staged before stays. A
\* successful BatchDelete, once committed, leaves exactly its ids not
\* retrievable and every other id retrievable.
C15_BatchStopsAtFirstFailure ==
    /\ []BatchesStopAtFailure
    /\ [][CommittedBatchDelete("t1")]_vars

\* a BatchSet has stopped at its second item, rejected by a hook, with the first
\* item staged and its hooks run
C15_Witness ==
    /\ ret.op = "BatchSet"
    /\ ret.err = "rejected by no2"
    /\ Len(ret.called) >= 2
    /\ Overlay(txs["t1"], "test", "1")[1]
    /\ Overlay(txs["t1"], "test", "1")[2] # Nil
    /\ ~Overlay(txs["t1"], "test", "2")[1]

\* the committed version marker: 0 when there is none
CommittedVersion ==
    IF Lookup(data, "migration", "current_version")[1]
    THEN data["migration"]["current_version"].Version ELSE 0

\* the positions of the migrations a Migrate to target has to apply
Pending(target) ==
    {k \in 1..Len(migrations) :
        CommittedVersion < migrations[k].Version /\ migrations[k].Version <= target}

Max(S) == CHOOSE n \in S : \A m \in S : m <= n

\* C16: a successful Migrate(target) invokes the up-functions of exactly the
\* migrations with currentVersion < version <= target, in ascending version
\* order whatever the registration order, and the version marker then records
\* the highest version applied.
C16_MigrateAscending ==
    [][\A target \in Targets :
          (ret'.op = "Migrate" /\ ret'.err = "nil" /\ Migrate(target, "nil"))
              => /\ Len(ret'.ups) = Cardinality(Pending(target))
                 /\ \A v \in Versions :
                       Cardinality({k \in 1..Len(ret'.ups) : ret'.ups[k] = v})
                           = Cardinality({k \in Pending(target) : migrations[k].Version = v})
                 /\ \A j, k \in 1..Len(ret'.ups) : j < k => ret'.ups[j] <= ret'.ups[k]
                 /\ Pending(target) # {}
                       => CommittedVersion' = Max({migrations[k].Version : k \in Pending(target)})]_vars

\* C17: when an up-function fails, Migrate returns the error and the committed
\* store is as before the call: the canonical map (the version marker with it),
\* the indexes and the persisted file are unchanged, so nothing that an earlier
\* step of the run staged has been committed.
C17_FailedMigrateLeavesStore ==
    [][\A target \in Targets :
          (/\ ret'.op = "Migrate"
           /\ ret'.value = IntValue(target)
           /\ MigrationRun(target).err = "up failed")
              => /\ ret'.err = "up failed"
                 /\ data' = data
                 /\ indexes' = indexes
                 /\ file' = file
                 /\ CommittedVersion' = CommittedVersion]_vars

\* a Migrate has failed in its second step, after a step that staged a record,
\* over a store that an earlier Migrate has written
C17_Witness ==
    /\ ret.op = "Migrate"
    /\ ret.err = "up failed"
    /\ Len(ret.ups) >= 2
    /\ CommittedVersion > 0
    /\ file.exists

\* C18: after a successful Migrate(t), a second Migrate(t) invokes no
\* up-function, leaves the canonical map and the version marker unchanged and
\* reports success, whatever migrations are registered.
C18_MigrateIdempotent ==
    [][(/\ ret.op = "Migrate" /\ ret.err = "nil"
        /\ ret'.op = "Migrate" /\ ret'.value = ret.value)
          => /\ ret'.ups = <<>>
             /\ ret'.err = "nil"
             /\ data' = data
             /\ CommittedVersion' = CommittedVersion]_vars

\* the ids of the merged view whose records satisfy every filter of q
Matching(tx, q) ==
    {i \in MergedIds(tx, q.entityType) :
        \A k \in 1..Len(q.filters) : Matches(MergedEntity(tx, q.entityType, i), q.filters[k])}

\* q asks for no order, or there are not two records to order, or the order
\* field of every matching record has the ordering capability
Orderable(tx, q) ==
    \/ q.orderBy = ""
    \/ Cardinality(Matching(tx, q)) < 2
    \/ \A i \in Matching(tx, q) : q.orderBy \in ComparableFields(MergedEntity(tx, q.entityType, i))

\* the sequence is in the order q asks for
InOrder(q, s) ==
    q.orderBy = "" \/ \A i, j \in 1..Len(s) : i < j => ~Less(q, s[j], s[i])

\* s without its first Offset records, cut to Limit records
Paged(q, s) ==
    LET kept == IF q.offset >= Len(s) THEN <<>> ELSE SubSeq(s, q.offset + 1, Len(s))
    IN  IF q.limit > 0 /\ Len(kept) > q.limit THEN SubSeq(kept, 1, q.limit) ELSE kept

\* Execute answered with the matching records, ordered, then paged
ExecuteIsPipeline ==
    (ret.op = "Execute" /\ Orderable(txs[ret.tx], ret.query)) =>
        /\ ret.err = "nil"
        /\ \E o \in Orders(Matching(txs[ret.tx], ret.query)) :
              LET all == [k \in 1..Len(o) |-> MergedEntity(txs[ret.tx], ret.type, o[k])]
              IN  InOrder(ret.query, all) /\ ret.results = Paged(ret.query, all)
        /\ ret.query.offset >= Cardinality(Matching(txs[ret.tx], ret.query)) => ret.results = <<>>

\* C19: Execute keeps exactly the records of the merged view that satisfy all
\* filters, orders them, drops the first Offset results and truncates to Limit;
\* an Offset at or beyond the number of filtered results gives an empty result
\* and no error; Execute changes neither the store, the cache nor the overlay.
C19_ExecuteIsPipeline ==
    /\ []ExecuteIsPipeline
    /\ [][ret'.op = "Execute" => UNCHANGED <<data, indexes, cache, file, txs>>]_vars

\* a filtered query ordered by rank has dropped its first result, the record of
\* the lower id, over an overlay that replaces a stored record
C19_Witness ==
    /\ ret.op = "Execute"
    /\ ret.err = "nil"
    /\ Len(ret.query.filters) > 0
    /\ ret.query.orderBy = "Rank"
    /\ ret.query.offset = 1
    /\ SeqIds(ret.results) = {"1"}
    /\ Cardinality(Matching(txs[ret.tx], ret.query)) = 2
    /\ \E i \in Ids : /\ Lookup(data, "test", i)[1]
                       /\ Overlay(txs[ret.tx], "test", i)[1]
                       /\ Overlay(txs[ret.tx], "test", i)[2] \notin {Nil, data["test"][i]}

\* C20: an OrderBy on a field whose values lack the ordering capability, with
\* two or more results to order, makes Execute return an explicit failure: it
\* neither returns a result as if nothing were wrong nor panics.
C20_OrderByFailsExplicitly ==
    (ret.op = "Execute" /\ ~Orderable(txs[ret.tx], ret.query))
        => ret.err \notin {"nil", "panic"}

----------------------------------------------------------------------------
(* The life of a transaction *)

\* what a Commit on the transaction of caller t would leave of the store, in
\* the state the step has reached: <<canonical map, indexes, records of the
\* file>> for every order of its loops
CommitLeaves(t) ==
    {LET db == ApplyChanges([data |-> data', cache |-> cache', indexes |-> indexes',
                             panic |-> FALSE], txs'[t].changes, order)
     IN  <<db.data, db.indexes, Saved(db.data).content>> :
        order \in IterationOrders(txs'[t].changes)}

\* the records of the canonical map by type (a type without records counts as
\* absent), the indexes and the records of the file
StoredRecords(d, idx, content) ==
    <<[t \in {x \in DOMAIN d : DOMAIN d[x] # {}} |-> d[t]], idx,
      [t \in {x \in DOMAIN content : DOMAIN content[x] # {}} |-> content[t]]>>

\* C21: committed and rolledBack are terminal: once the transaction has been
\* rolled back, no later Set, Delete or Commit on it changes the canonical map,
\* the indexes or the persisted file.  Stated of the call that follows the
\* Rollback and of the Commit that follows that call: both leave the records
\* of the store as the Rollback left them.
C21_RolledBackIsTerminal ==
    [][(ret.op = "Rollback" /\ ret'.op \in {"Set", "Delete", "Commit"}) =>
          /\ StoredRecords(data', indexes', file'.content) = StoredRecords(data, indexes, file.content)
          /\ \A l \in CommitLeaves("t1") :
                StoredRecords(l[1], l[2], l[3]) = StoredRecords(data, indexes, file.content)]_vars

----------------------------------------------------------------------------
(* Callers running beside one another *)

\* the Commit of caller t has applied some entries of its overlay and has others
\* still to apply
PartlyApplied(t) ==
    /\ calls[t].op = "Commit" /\ calls[t].pc = "apply"
    /\ calls[t].todo # <<>>
    /\ Len(calls[t].todo) < Cardinality(Entries(txs[t].changes))

\* the step is a GetAll that returned to its caller
GetAllStep == ret' # ret /\ ret'.op = "GetAll"

\* C22: reads of the store happen under the shared form of the store lock and
\* mutations under the exclusive form, hence no reader running beside a Commit
\* observes the canonical map with the Commit's overlay applied only in part:
\* a GetAll never reads, and is never stopped, while a Commit is between two of
\* its writes.
C22_ReadersSeeWholeCommits ==
    [][GetAllStep => /\ \A t \in Txs : ~PartlyApplied(t)
                     /\ ret'.err = "nil"]_vars

\* the store lock is held by callers inside Commit's or Get's locked part and
\* by nobody else, and only callers inside Commit's call of Lock wait for it
LockHeldInsideCalls ==
    /\ \A t \in Txs :
          /\ mu.writer = t <=> (calls[t].op = "Commit" /\ calls[t].pc = "apply")
          /\ t \in mu.readers <=> (calls[t].op = "Get" /\ calls[t].pc = "read")
          /\ t \in mu.waiting <=> (calls[t].op = "Commit" /\ calls[t].pc = "Lock")
    /\ mu.writer \in Txs \cup {""}
    /\ mu.writer # "" => mu.readers = {}

\* a caller waiting for the lock beside callers that are in no call, whatever
\* their transactions hold, gets it
OpenTransactionsBlockNobody ==
    \A t \in Txs :
        (\A u \in Txs \ {t} : Idle(u)) =>
            /\ (calls[t].op = "Commit" /\ calls[t].pc = "Lock") => ENABLED CommitLock(t)
            /\ (calls[t].op = "Get" /\ calls[t].pc = "RLock") => ENABLED GetRLock(t)

----------------------------------------------------------------------------
(* Post-set hooks *)

\* what C24 asks of a step that is Set(t, "test", e) on a writable transaction
\* whose pre-set hooks all accept e and one of whose post-set hooks fails on it
SetKeepsStagedRecord(t, e) ==
    LET pre == HooksOf("pre-set")
        post == HooksOf("post-set")
        failing == Failing("post-set", e)
    IN  (Failing("pre-set", e) = {} /\ failing # {}) =>
            /\ ret'.err = HookError(post[First(failing)])
            /\ ret'.called = HookCalls("pre-set", Len(pre)) \o HookCalls("post-set", First(failing))
            /\ Overlay(txs'[t], "test", e.ID) = <<TRUE, e>>
            \* the Get that follows in the same transaction
            /\ LET got == GetIn(txs'[t], cache', "test", e.ID)
               IN  got.found /\ got.entity = e
            \* the Commit that follows
            /\ \A order \in IterationOrders(txs'[t].changes) :
                  LET db == ApplyChanges([data |-> data', cache |-> cache', indexes |-> indexes',
                                          panic |-> FALSE], txs'[t].changes, order)
                  IN  Lookup(db.data, "test", e.ID) = <<TRUE, e>>

\* C24: when a post-set hook fails, Set returns that error and later post-set
\* hooks do not run, but the record stays staged: a following Get in the same
\* transaction returns it and a following Commit writes it to the store.
C24_PostSetFailureKeepsStaged ==
    [][\A e \in EntitiesOf("t1") :
          (ret'.op = "Set" /\ ~txs["t1"].readOnly /\ Set("t1", "test", e))
              => SetKeepsStagedRecord("t1", e)]_vars

\* a Set has failed in the first of two post-set hooks and its record is staged
\* over a store that does not hold it
C24_Witness ==
    /\ ret.op = "Set"
    /\ ret.err = "rejected by no2"
    /\ Len(HooksOf("post-set")) = 2
    /\ ret.called = <<<<"post-set", "no2">>>>
    /\ Overlay(txs["t1"], "test", "2") = <<TRUE, TestEntity("2", "a", 1)>>
    /\ ~Lookup(data, "test", "2")[1]

----------------------------------------------------------------------------
(* The cache *)

\* every item the cache holds under the key of a (type, id) is the canonical
\* map's record of that (type, id)
CacheIsTransparent ==
    \A p \in KeyPairs \cup (EntityTypes \X Ids) :
        getCacheKey(p[1], p[2]) \in DOMAIN cache
            => Lookup(data, p[1], p[2]) = <<TRUE, cache[getCacheKey(p[1], p[2])]>>

\* C25: the cache is transparent: in every reachable state, for every (type,
\* id), a present and unexpired cache entry equals the canonical map's record
\* for that id, so a store read through the cache returns exactly what a direct
\* lookup in the canonical map would return, after any interleaving of commits,
\* reads that populate the cache, and expiries.
C25_CacheIsTransparent == CacheIsTransparent /\ GetReadCanonical

----------------------------------------------------------------------------
(* Migrations across a restart *)

\* the version of the marker record in the persisted file, 0 when it has none
PersistedVersion ==
    IF /\ "migration" \in DOMAIN file.content
       /\ "current_version" \in DOMAIN file.content["migration"]
       /\ "version" \in DOMAIN file.content["migration"]["current_version"]
    THEN file.content["migration"]["current_version"].version
    ELSE 0

\* the store is as load() left it after a Migrate that committed a version:
\* the marker record is the one read from the file
FreshlyLoaded ==
    /\ PersistedVersion > 0
    /\ data = load(file)

\* C26: the applied version survives a restart: after a successful Migrate(v)
\* and a fresh store loaded from the file, Migrate takes v from the marker
\* record, so Migrate to v or below succeeds without invoking an up-function
\* and a Migrate to w > v invokes only migrations with version in (v, w].
C26_VersionSurvivesRestart ==
    [][\A target \in Targets :
          (FreshlyLoaded /\ ret'.op = "Migrate" /\ ret'.value = IntValue(target)) =>
              /\ \A k \in 1..Len(ret'.ups) :
                    ret'.ups[k] > PersistedVersion /\ ret'.ups[k] <= target
              /\ target <= PersistedVersion => ret'.err = "nil"
              /\ ret'.err # "invalid entity type for migration version"]_vars

====
